---- MODULE Spec2Model ----
(***************************************************************************)
(* A model of buny: the dependency resolver (depends,                      *)
(* unravelOrderOfDependencies), the deep merge (deepMerge), the            *)
(* asynchronous renderer (renderToObject) and the batch driver             *)
(* (renderFile).                                                           *)
(***************************************************************************)
EXTENDS Integers, Sequences, FiniteSets, TLC

VARIABLES
    wrappers,   \* the DependantNodeTree objects constructed so far: Seq of [deps, node]
    lastCall,   \* the last call of depends: its arguments and whether it threw
    trees,      \* the argument of the last unravelOrderOfDependencies call
    order,      \* the array that call returned
    resolved,   \* TRUE once unravelOrderOfDependencies has been called
    mTarget,    \* deepMerge: first argument
    mSource,    \* deepMerge: second argument
    mOut,       \* deepMerge: its outcome (a value or a thrown Error)
    mDone,      \* TRUE once deepMerge has been applied
    pc,         \* renderFile: "init", "imported", "awaiting" (Promise.allSettled), "returned"
    modIdx,     \* renderFile: the module that was imported (0: none yet)
    entries,    \* renderFile: promisesMap, the {key, node} pairs in the order their renders were started
    tasks,      \* the renderToObject calls made so far: <<key, node>> -> their state
    settled,    \* the renderToObject calls whose promise has settled, in the order they settled
    ret,        \* renderFile: the returned {fulfilled, failures}
    heap,       \* the objects and arrays allocated so far: Seq of cells, addressed by index
    hArgs,      \* results.reduce: the results being folded (scalars or references)
    hAccs,      \* results.reduce: the accumulators so far, the initial {} first
    hErr        \* results.reduce: the message of the Error deepMerge threw ("": none)

depsVars  == <<wrappers, lastCall, trees, order, resolved>>
mergeVars == <<mTarget, mSource, mOut, mDone>>
fileVars  == <<pc, modIdx, entries, tasks, settled, ret>>
heapVars  == <<heap, hArgs, hAccs, hErr>>
vars == <<wrappers, lastCall, trees, order, resolved, mTarget, mSource, mOut, mDone,
          pc, modIdx, entries, tasks, settled, ret, heap, hArgs, hAccs, hErr>>

(***************************************************************************)
(* Bounds                                                                  *)
(***************************************************************************)
NumNodes    == 3    \* distinct raw VNodes available to depends / resolve
MaxWrappers == 1    \* DependantNodeTree objects constructed in one run
MaxDeps     == 1    \* length of a deps array
MaxTrees    == 3    \* length of the array given to unravelOrderOfDependencies

SeqsUpTo(S, n) == UNION {[1..k -> S] : k \in 0..n}

(***************************************************************************)
(* References: a raw VNode (identity id) or a DependantNodeTree (index in  *)
(* wrappers).  Identity is the pair (w, id).                               *)
(***************************************************************************)
Raw(i)  == [w |-> FALSE, id |-> i]
Wrap(i) == [w |-> TRUE,  id |-> i]

RawNodes == {Raw(i) : i \in 1..NumNodes}
Refs     == RawNodes \cup {Wrap(i) : i \in 1..Len(wrappers)}

DependantNodeTree(deps, node) == [deps |-> deps, node |-> node]

RECURSIVE getVNode(_)
getVNode(i) ==
    LET n == wrappers[i].node
    IN  IF n.w THEN getVNode(n.id) ELSE n

\* the underlying VNode of a reference (value instanceof DependantNodeTree ? value.getVNode() : value)
Underlying(r) == IF r.w THEN getVNode(r.id) ELSE r

\* the "basic check for circular dependencies" of depends: TRUE when it throws
dependsThrowsAll(deps, node) ==
    \E i \in 1..Len(deps) : Underlying(deps[i]) = Underlying(node)

dependsThrows(deps, node) ==
    \E i \in 1..Len(deps) :
        /\ deps[i].w
        /\ getVNode(deps[i].id) = (IF node.w THEN getVNode(node.id) ELSE node)

NoReturn == [fulfilled |-> <<>>, failures |-> <<>>]

NoCall == [called |-> FALSE, deps |-> <<>>, node |-> Raw(0), threw |-> FALSE, error |-> ""]

Depends(deps, node) ==
    /\ ~resolved
    /\ dependsThrows(deps, node) \/ Len(wrappers) < MaxWrappers
    /\ IF dependsThrows(deps, node)
       THEN /\ lastCall' = [called |-> TRUE, deps |-> deps, node |-> node, threw |-> TRUE,
                            error |-> "Circular dependency detected"]
            /\ UNCHANGED wrappers
       ELSE /\ lastCall' = [called |-> TRUE, deps |-> deps, node |-> node, threw |-> FALSE,
                            error |-> ""]
            /\ wrappers' = Append(wrappers, DependantNodeTree(deps, node))
    /\ UNCHANGED <<trees, order, resolved>>
    /\ UNCHANGED mergeVars
    /\ UNCHANGED heapVars
    /\ UNCHANGED fileVars

(***************************************************************************)
(* unravelOrderOfDependencies: a depth-first traversal with one visited    *)
(* set shared by the whole call.                                           *)
(***************************************************************************)
RECURSIVE dfs(_, _), dfsEach(_, _, _)

dfsEach(nodes, i, st) ==
    IF i > Len(nodes) THEN st ELSE dfsEach(nodes, i + 1, dfs(nodes[i], st))

\* a plausible slip: order.unshift(node) instead of order.push(node)
dfsUnshift(node, st) ==
    LET s1 == [st EXCEPT !.calls = @ + 1]
    IN  IF node \in st.visited THEN [s1 EXCEPT !.skips = @ + 1]
        ELSE IF node.w
             THEN dfs(wrappers[node.id].node,
                      dfsEach(wrappers[node.id].deps, 1, [s1 EXCEPT !.visited = @ \cup {node}]))
             ELSE [s1 EXCEPT !.visited = @ \cup {node}, !.order = <<node>> \o @]

\* a plausible slip: only the VNode branch consults the visited set
dfsRevisit(node, st) ==
    LET s1 == [st EXCEPT !.calls = @ + 1]
    IN  IF node.w
        THEN dfs(wrappers[node.id].node,
                 dfsEach(wrappers[node.id].deps, 1, [s1 EXCEPT !.visited = @ \cup {node}]))
        ELSE IF node \in st.visited THEN [s1 EXCEPT !.skips = @ + 1]
        ELSE [s1 EXCEPT !.visited = @ \cup {node}, !.order = Append(@, node)]

\* a plausible slip: a VNode is pushed every time it is met
dfsPushAgain(node, st) ==
    LET s1 == [st EXCEPT !.calls = @ + 1]
    IN  IF node.w /\ node \in st.visited THEN [s1 EXCEPT !.skips = @ + 1]
        ELSE IF node.w
             THEN dfs(wrappers[node.id].node,
                      dfsEach(wrappers[node.id].deps, 1, [s1 EXCEPT !.visited = @ \cup {node}]))
             ELSE [s1 EXCEPT !.visited = @ \cup {node}, !.order = Append(@, node)]

\* st: the visited set and the order array of the enclosing call, with the
\* number of dfs calls made so far and how many of them returned at once
dfs(node, st) ==
    LET s1 == [st EXCEPT !.calls = @ + 1]
    IN  IF node \in st.visited THEN [s1 EXCEPT !.skips = @ + 1]
        ELSE IF node.w
             THEN dfs(wrappers[node.id].node,
                      dfsEach(wrappers[node.id].deps, 1, [s1 EXCEPT !.visited = @ \cup {node}]))
             ELSE [s1 EXCEPT !.visited = @ \cup {node}, !.order = Append(@, node)]

\* for (const tree of trees) dfs(tree)
Traversal(ts) ==
    dfsEach(ts, 1, [visited |-> {}, order |-> <<>>, calls |-> 0, skips |-> 0])

unravelOrderOfDependencies(ts) == Traversal(ts).order

Resolve(ts) ==
    /\ ~resolved
    /\ resolved' = TRUE
    /\ trees' = ts
    /\ order' = unravelOrderOfDependencies(ts)
    /\ UNCHANGED <<wrappers, lastCall>>
    /\ UNCHANGED mergeVars
    /\ UNCHANGED heapVars
    /\ UNCHANGED fileVars

(***************************************************************************)
(* Values: null, undefined, booleans, numbers, strings, plain objects      *)
(* (insertion-ordered key/value entries) and arrays.                       *)
(***************************************************************************)
Val(t, b, n, s, kv, arr) == [t |-> t, b |-> b, n |-> n, s |-> s, kv |-> kv, arr |-> arr]
Null    == Val("null", FALSE, 0, "", <<>>, <<>>)
Undef   == Val("undefined", FALSE, 0, "", <<>>, <<>>)
Bool(b) == Val("bool", b, 0, "", <<>>, <<>>)
Num(n)  == Val("num", FALSE, n, "", <<>>, <<>>)
Str(s)  == Val("str", FALSE, 0, s, <<>>, <<>>)
Obj(kv) == Val("obj", FALSE, 0, "", kv, <<>>)
Arr(a)  == Val("arr", FALSE, 0, "", <<>>, a)
Entry(k, v) == [k |-> k, v |-> v]

HasKey(kv, k) == \E i \in 1..Len(kv) : kv[i].k = k
IndexOfKey(kv, k) == CHOOSE i \in 1..Len(kv) : kv[i].k = k
\* obj[k]: undefined when the key is absent or obj has no such property
Get(v, k) == IF v.t = "obj" /\ HasKey(v.kv, k) THEN v.kv[IndexOfKey(v.kv, k)].v ELSE Undef
\* output[k] = x: an existing key keeps its place, a new key is appended
Put(kv, k, x) ==
    IF HasKey(kv, k)
    THEN [kv EXCEPT ![IndexOfKey(kv, k)] = Entry(k, x)]
    ELSE Append(kv, Entry(k, x))

\* the characters of the strings used as values
StrChars(s) == CASE s = ""  -> <<>>
                 [] s = "x" -> <<"x">>
                 [] OTHER   -> <<s>>

\* { ...target }: the own enumerable properties of target
Spread(v) ==
    CASE v.t = "obj" -> v.kv
      [] v.t = "arr" -> [i \in 1..Len(v.arr) |-> Entry(ToString(i - 1), v.arr[i])]
      [] v.t = "str" -> [i \in 1..Len(StrChars(v.s)) |-> Entry(ToString(i - 1), Str(StrChars(v.s)[i]))]
      [] OTHER       -> <<>>

isArray(v)  == v.t = "arr"
isObject(v) == v.t = "obj"

\* { ...a, ...b }: the entries of b assigned over those of a, from the i-th on
RECURSIVE Layer(_, _, _)
Layer(a, b, i) == IF i > Len(b) THEN a ELSE Layer(Put(a, b[i].k, b[i].v), b, i + 1)

Ok(v)    == [ok |-> TRUE, val |-> v, err |-> ""]
Throw(m) == [ok |-> FALSE, val |-> Undef, err |-> m]

MergeMsg(key) ==
    "The key \"" \o key \o "\" cannot be merged as it isn't itself an object and already exists in the target object."

(***************************************************************************)
(* deepMerge.  Keys are ordinary data keys (none is a property inherited   *)
(* from Object.prototype), so `key in x` is own-key membership.            *)
(***************************************************************************)
RECURSIVE deepMerge(_, _), mergeKeys(_, _, _, _)

\* a plausible slip: a colliding scalar overwrites instead of throwing
mergeKeysOverwrite(target, source, i, output) ==
    IF i > Len(source.kv) THEN Ok(Obj(output))
    ELSE LET key == source.kv[i].k
             sv  == source.kv[i].v
         IN  IF isObject(sv)
             THEN IF ~HasKey(target.kv, key)
                  THEN mergeKeys(target, source, i + 1, Put(output, key, sv))
                  ELSE LET r == deepMerge(Get(target, key), sv)
                       IN  IF r.ok THEN mergeKeys(target, source, i + 1, Put(output, key, r.val))
                           ELSE r
             ELSE IF isArray(sv)
             THEN mergeKeys(target, source, i + 1,
                            Put(output, key,
                                IF isArray(Get(target, key))
                                THEN Arr(Get(target, key).arr \o sv.arr)
                                ELSE Arr(sv.arr)))
             ELSE mergeKeys(target, source, i + 1, Put(output, key, sv))

\* a plausible slip: an array in both is replaced by source's instead of concatenated
mergeKeysNoConcat(target, source, i, output) ==
    IF i > Len(source.kv) THEN Ok(Obj(output))
    ELSE LET key == source.kv[i].k
             sv  == source.kv[i].v
         IN  IF isObject(sv)
             THEN IF ~HasKey(target.kv, key)
                  THEN mergeKeys(target, source, i + 1, Put(output, key, sv))
                  ELSE LET r == deepMerge(Get(target, key), sv)
                       IN  IF r.ok THEN mergeKeys(target, source, i + 1, Put(output, key, r.val))
                           ELSE r
             ELSE IF isArray(sv)
             THEN mergeKeys(target, source, i + 1, Put(output, key, Arr(sv.arr)))
             ELSE IF HasKey(output, key)
                  THEN Throw(MergeMsg(key))
                  ELSE mergeKeys(target, source, i + 1, Put(output, key, sv))

\* Object.keys(source).forEach(...), from the i-th key on
mergeKeys(target, source, i, output) ==
    IF i > Len(source.kv) THEN Ok(Obj(output))
    ELSE LET key == source.kv[i].k
             sv  == source.kv[i].v
         IN  IF isObject(sv)
             THEN IF ~HasKey(target.kv, key)
                  THEN mergeKeys(target, source, i + 1, Put(output, key, sv))
                  ELSE LET r == deepMerge(Get(target, key), sv)
                       IN  IF r.ok THEN mergeKeys(target, source, i + 1, Put(output, key, r.val))
                           ELSE r
             ELSE IF isArray(sv)
             THEN mergeKeys(target, source, i + 1,
                            Put(output, key,
                                IF isArray(Get(target, key))
                                THEN Arr(Get(target, key).arr \o sv.arr)
                                ELSE Arr(sv.arr)))
             ELSE IF HasKey(output, key)
                  THEN Throw(MergeMsg(key))
                  ELSE mergeKeys(target, source, i + 1, Put(output, key, sv))

\* a plausible slip: `{ ...target, ...source }` when the arguments are not both objects
deepMergeLayered(target, source) ==
    IF isObject(target) /\ isObject(source)
    THEN mergeKeys(target, source, 1, Spread(target))
    ELSE Ok(Obj(Layer(Spread(target), Spread(source), 1)))

deepMerge(target, source) ==
    IF isObject(target) /\ isObject(source)
    THEN mergeKeys(target, source, 1, Spread(target))
    ELSE Ok(Obj(Spread(target)))

(***************************************************************************)
(* The arguments deepMerge is applied to                                   *)
(***************************************************************************)
MaxArrLen     == 1   \* length of an array value
MaxSourceKeys == 1   \* number of keys of the source argument

Keys       == {"a", "b"}
ScalarVals == {Num(1), Null}
ArrayVals  == {Arr(a) : a \in SeqsUpTo({Num(1)}, MaxArrLen)}
LeafVals   == ScalarVals \cup ArrayVals
InnerObjs  == {Obj(<<>>)} \cup {Obj(<<Entry(k, v)>>) : k \in Keys, v \in LeafVals}
FieldVals  == LeafVals \cup InnerObjs
ObjsUpTo(n) ==
    {Obj(<<>>)}
    \cup (IF n >= 1 THEN {Obj(<<Entry(k, v)>>) : k \in Keys, v \in FieldVals} ELSE {})
    \cup (IF n >= 2 THEN {Obj(<<Entry(p[1], v1), Entry(p[2], v2)>>) :
                             p \in {q \in Keys \X Keys : q[1] # q[2]},
                             v1 \in FieldVals, v2 \in FieldVals}
          ELSE {})
NonObjs      == {Null, Num(1), Str("x"), Arr(<<Num(1)>>)}
MergeTargets == ObjsUpTo(2) \cup NonObjs
MergeSources == ObjsUpTo(MaxSourceKeys) \cup NonObjs

InitMerge ==
    /\ wrappers = <<>>
    /\ lastCall = NoCall
    /\ trees = <<>>
    /\ order = <<>>
    /\ resolved = FALSE
    /\ mTarget \in MergeTargets
    /\ mSource \in MergeSources
    /\ mOut = Ok(Undef)
    /\ mDone = FALSE
    /\ pc = "init"
    /\ modIdx = 0
    /\ entries = <<>>
    /\ tasks = <<>>
    /\ settled = <<>>
    /\ ret = NoReturn
    /\ heap = <<>>
    /\ hArgs = <<>>
    /\ hAccs = <<>>
    /\ hErr = ""

Merge ==
    /\ ~mDone
    /\ mDone' = TRUE
    /\ mOut' = deepMerge(mTarget, mSource)
    /\ UNCHANGED <<mTarget, mSource>>
    /\ UNCHANGED depsVars
    /\ UNCHANGED heapVars
    /\ UNCHANGED fileVars

NextMerge == Merge

SpecMerge == InitMerge /\ [][NextMerge]_vars

(***************************************************************************)
(* deepMerge on a heap.  Objects and arrays are cells with an address; a   *)
(* property or an element holds a scalar or a reference to a cell, so that *)
(* `output[key] = source[key]` shares the cell and a write is visible      *)
(* through every reference to it.                                          *)
(***************************************************************************)
MaxMerges == 2   \* number of results folded by results.reduce(deepMerge, {})

Ref(a) == Val("ref", FALSE, a, "", <<>>, <<>>)
hIsObject(h, v) == v.t = "ref" /\ h[v.n].t = "obj"
hIsArray(h, v)  == v.t = "ref" /\ h[v.n].t = "arr"
\* { ...v } read through a reference
hSpread(h, v) == IF v.t = "ref" THEN Spread(h[v.n]) ELSE Spread(v)
\* cell[key] = x
hPut(h, a, key, x) == [h EXCEPT ![a] = Obj(Put(h[a].kv, key, x))]

\* a value built on the heap, innermost cells first
RECURSIVE Store(_, _), StoreAll(_, _, _, _)
StoreAll(h, vs, i, out) ==
    IF i > Len(vs) THEN [h |-> h, vs |-> out]
    ELSE LET r == Store(h, vs[i]) IN StoreAll(r.h, vs, i + 1, Append(out, r.v))
Store(h, v) ==
    IF isObject(v)
    THEN LET r == StoreAll(h, [i \in 1..Len(v.kv) |-> v.kv[i].v], 1, <<>>)
         IN  [h |-> Append(r.h, Obj([i \in 1..Len(v.kv) |-> Entry(v.kv[i].k, r.vs[i])])),
              v |-> Ref(Len(r.h) + 1)]
    ELSE IF isArray(v)
    THEN LET r == StoreAll(h, v.arr, 1, <<>>)
         IN  [h |-> Append(r.h, Arr(r.vs)), v |-> Ref(Len(r.h) + 1)]
    ELSE [h |-> h, v |-> v]

\* the value a scalar or reference stands for
RECURSIVE Load(_, _)
Load(h, v) ==
    IF v.t # "ref" THEN v
    ELSE LET c == h[v.n]
         IN  IF c.t = "obj"
             THEN Obj([i \in 1..Len(c.kv) |-> Entry(c.kv[i].k, Load(h, c.kv[i].v))])
             ELSE Arr([i \in 1..Len(c.arr) |-> Load(h, c.arr[i])])

HOk(h, v)    == [h |-> h, ok |-> TRUE, v |-> v, err |-> ""]
HThrow(h, m) == [h |-> h, ok |-> FALSE, v |-> Undef, err |-> m]

\* a plausible slip: `const output = target`, merging into the target itself
newOutputAlias(h, target) ==
    IF hIsObject(h, target) THEN [h |-> h, a |-> target.n]
    ELSE [h |-> Append(h, Obj(hSpread(h, target))), a |-> Len(h) + 1]

\* const output = { ...target }: a new cell holding target's own properties
newOutput(h, target) ==
    [h |-> Append(h, Obj(hSpread(h, target))), a |-> Len(h) + 1]

RECURSIVE hDeepMerge(_, _, _), hMergeKeys(_, _, _, _, _)
\* Object.keys(source).forEach(...), from the i-th key on; out: address of output
hMergeKeys(h, target, source, i, out) ==
    IF i > Len(h[source.n].kv) THEN HOk(h, Ref(out))
    ELSE LET key == h[source.n].kv[i].k
             sv  == h[source.n].kv[i].v
             tv  == Get(h[target.n], key)
         IN  IF hIsObject(h, sv)
             THEN IF ~HasKey(h[target.n].kv, key)
                  THEN hMergeKeys(hPut(h, out, key, sv), target, source, i + 1, out)
                  ELSE LET r == hDeepMerge(h, tv, sv)
                       IN  IF r.ok
                           THEN hMergeKeys(hPut(r.h, out, key, r.v), target, source, i + 1, out)
                           ELSE r
             ELSE IF hIsArray(h, sv)
             THEN LET both == (IF hIsArray(h, tv) THEN h[tv.n].arr ELSE <<>>) \o h[sv.n].arr
                  IN  hMergeKeys(hPut(Append(h, Arr(both)), out, key, Ref(Len(h) + 1)),
                                 target, source, i + 1, out)
             ELSE IF HasKey(h[out].kv, key)
                  THEN HThrow(h, MergeMsg(key))
                  ELSE hMergeKeys(hPut(h, out, key, sv), target, source, i + 1, out)

hDeepMerge(h, target, source) ==
    LET o == newOutput(h, target)
    IN  IF hIsObject(h, target) /\ hIsObject(h, source)
        THEN hMergeKeys(o.h, target, source, 1, o.a)
        ELSE HOk(o.h, Ref(o.a))

\* the results folded: each built on the heap before the fold starts
HeapArgs == ObjsUpTo(1) \cup NonObjs

InitHeap ==
    /\ wrappers = <<>>
    /\ lastCall = NoCall
    /\ trees = <<>>
    /\ order = <<>>
    /\ resolved = FALSE
    /\ mTarget = Undef
    /\ mSource = Undef
    /\ mOut = Ok(Undef)
    /\ mDone = FALSE
    /\ pc = "init"
    /\ modIdx = 0
    /\ entries = <<>>
    /\ tasks = <<>>
    /\ settled = <<>>
    /\ ret = NoReturn
    /\ \E results \in [1..MaxMerges -> HeapArgs] :
          LET r == StoreAll(<<>>, results, 1, <<>>)
          IN  /\ heap = Append(r.h, Obj(<<>>))
              /\ hArgs = r.vs
              /\ hAccs = <<Ref(Len(r.h) + 1)>>
    /\ hErr = ""

\* one step of results.reduce((acc, result) => deepMerge(acc, result), {})
HeapMerge ==
    /\ hErr = ""
    /\ Len(hAccs) <= Len(hArgs)
    /\ LET r == hDeepMerge(heap, hAccs[Len(hAccs)], hArgs[Len(hAccs)])
       IN  /\ heap' = r.h
           /\ hAccs' = IF r.ok THEN Append(hAccs, r.v) ELSE hAccs
           /\ hErr' = r.err
    /\ UNCHANGED hArgs
    /\ UNCHANGED mergeVars
    /\ UNCHANGED depsVars
    /\ UNCHANGED fileVars

NextHeap == HeapMerge

SpecHeap == InitHeap /\ [][NextHeap]_vars

InitDeps ==
    /\ wrappers = <<>>
    /\ lastCall = NoCall
    /\ trees = <<>>
    /\ order = <<>>
    /\ resolved = FALSE
    /\ mTarget = Undef
    /\ mSource = Undef
    /\ mOut = Ok(Undef)
    /\ mDone = FALSE
    /\ pc = "init"
    /\ modIdx = 0
    /\ entries = <<>>
    /\ tasks = <<>>
    /\ settled = <<>>
    /\ ret = NoReturn
    /\ heap = <<>>
    /\ hArgs = <<>>
    /\ hAccs = <<>>
    /\ hErr = ""

NextDeps ==
    \/ \E deps \in SeqsUpTo(Refs, MaxDeps), node \in Refs : Depends(deps, node)
    \/ \E ts \in SeqsUpTo(Refs, MaxTrees) : Resolve(ts)

SpecDeps == InitDeps /\ [][NextDeps]_vars

(***************************************************************************)
(* VNodes.  A node is null, a primitive leaf, an object without a `type`,  *)
(* or an element { type, children }.  Nodes are identified by their index  *)
(* in VN; par is the node whose render awaits this node's render (0 for a  *)
(* node that is only rendered as an export).                               *)
(***************************************************************************)
NullNode(par)  == [kind |-> "null", val |-> Null, ty |-> "", tag |-> "", children |-> <<>>, par |-> par]
Leaf(v, par)   == [kind |-> "leaf", val |-> v, ty |-> "", tag |-> "", children |-> <<>>, par |-> par]
ObjNode(par)   == [kind |-> "object", val |-> Null, ty |-> "", tag |-> "", children |-> <<>>, par |-> par]
El(ty, tag, children, par) ==
    [kind |-> "elem", val |-> Null, ty |-> ty, tag |-> tag, children |-> children, par |-> par]

VN == <<
    Leaf(Str("5"), 0),                          \*  1
    Leaf(Bool(TRUE), 0),                        \*  2
    Leaf(Bool(FALSE), 0),                       \*  3
    Leaf(Num(7), 0),                            \*  4
    Leaf(Str("hello"), 0),                      \*  5
    Leaf(Str(""), 0),                           \*  6
    Leaf(Str("true"), 0),                       \*  7
    NullNode(0),                                \*  8
    El("symbol", "List", <<10, 11, 12>>, 0),    \*  9  <List><AsyncA/><x>5</x><AsyncB/></List>
    El("function", "AsyncA", <<>>, 9),          \* 10
    El("string", "x", <<14>>, 9),               \* 11
    El("function", "AsyncB", <<>>, 9),          \* 12
    Leaf(Str("hello"), 10),                     \* 13  returned by AsyncA
    Leaf(Str("5"), 11),                         \* 14
    Leaf(Num(7), 12),                           \* 15  returned by AsyncB
    El("symbol", "Fragment", <<17, 18>>, 0),    \* 16  <><a>1</a><AsyncC/></>
    El("string", "a", <<19>>, 16),              \* 17
    El("function", "AsyncC", <<>>, 16),         \* 18
    Leaf(Str("1"), 17),                         \* 19
    El("string", "b", <<21>>, 18),              \* 20  returned by AsyncC
    Leaf(Str("2"), 20),                         \* 21
    El("string", "spec", <<23, 25>>, 0),        \* 22  <spec><AsyncE/><b>x</b></spec>
    El("function", "AsyncE", <<>>, 22),         \* 23
    El("string", "a", <<27>>, 23),              \* 24  returned by AsyncE
    El("string", "b", <<26>>, 22),              \* 25
    Leaf(Str("x"), 25),                         \* 26
    Leaf(Str("1"), 24),                         \* 27
    El("string", "empty", <<>>, 0),             \* 28  <empty/>
    El("string", "c", <<30, 32>>, 0),           \* 29  <c><a>1</a><a>2</a></c>
    El("string", "a", <<31>>, 29),              \* 30
    Leaf(Str("1"), 30),                         \* 31
    El("string", "a", <<33>>, 29),              \* 32
    Leaf(Str("2"), 32),                         \* 33
    El("symbol", "Fragment", <<35, 36, 37>>, 0),\* 34  <><AsyncFail1/><AsyncFail2/><AsyncOk/></>
    El("function", "AsyncFail1", <<>>, 34),     \* 35
    El("function", "AsyncFail2", <<>>, 34),     \* 36
    El("function", "AsyncOk", <<>>, 34),        \* 37
    El("string", "k", <<51>>, 37),              \* 38  returned by AsyncOk
    El("function", "ThrowValue", <<>>, 0),      \* 39
    El("string", "d", <<41>>, 0),               \* 40  <d><AsyncThrowValue/></d>
    El("function", "AsyncThrowValue", <<>>, 40),\* 41
    El("function", "ThrowError", <<>>, 0),      \* 42
    El("string", "ok", <<44>>, 0),              \* 43  <ok>hello</ok>
    Leaf(Str("hello"), 43),                     \* 44
    ObjNode(0),                                 \* 45
    El("symbol", "Other", <<>>, 0),             \* 46
    El("function", "Value", <<>>, 0),           \* 47
    El("string", "name", <<49>>, 47),           \* 48  returned by Value
    Leaf(Str("true"), 48),                      \* 49
    El("function", "AsyncFail3", <<>>, 0),      \* 50
    Leaf(Bool(FALSE), 38),                      \* 51
    El("symbol", "Fragment", <<53, 54>>, 0),    \* 52  <><AsyncThrowValue/><a>1</a></>
    El("function", "AsyncThrowValue", <<>>, 52),\* 53
    El("string", "a", <<55>>, 52),              \* 54
    Leaf(Str("1"), 54)                          \* 55
>>

NodeIds == 1..Len(VN)

(***************************************************************************)
(* Function components: whether the function is async (returns a promise), *)
(* and what it produces: a node, a thrown Error, or a thrown non-Error.    *)
(***************************************************************************)
Component(async, out, node, msg) == [async |-> async, out |-> out, node |-> node, msg |-> msg]

Comp(name) ==
    CASE name = "AsyncA"          -> Component(TRUE, "node", 13, "")
      [] name = "AsyncB"          -> Component(TRUE, "node", 15, "")
      [] name = "AsyncC"          -> Component(TRUE, "node", 20, "")
      [] name = "AsyncE"          -> Component(TRUE, "node", 24, "")
      [] name = "AsyncOk"         -> Component(TRUE, "node", 38, "")
      [] name = "AsyncFail1"      -> Component(TRUE, "error", 0, "e1")
      [] name = "AsyncFail2"      -> Component(TRUE, "error", 0, "e2")
      [] name = "AsyncFail3"      -> Component(TRUE, "error", 0, "e3")
      [] name = "AsyncThrowValue" -> Component(TRUE, "value", 0, "")
      [] name = "ThrowValue"      -> Component(FALSE, "value", 0, "")
      [] name = "ThrowError"      -> Component(FALSE, "error", 0, "boom")
      [] name = "Value"           -> Component(FALSE, "node", 48, "")

(***************************************************************************)
(* Modules: what import(filePath) yields.  A module is the wrappers its    *)
(* top level constructed with depends and its exports (Object.entries).    *)
(***************************************************************************)
Export(key, value) == [key |-> key, value |-> value]

Modules == <<
    [wrappers |-> <<>>,
     exports  |-> <<Export("e", Raw(6)), Export("f", Raw(3)), Export("h", Raw(5)),
                    Export("n", Raw(4)), Export("s", Raw(1)), Export("t", Raw(2)),
                    Export("ts", Raw(7)), Export("z", Raw(8))>>],
    [wrappers |-> <<>>, exports |-> <<Export("list", Raw(9))>>],
    [wrappers |-> <<>>, exports |-> <<Export("frag", Raw(16)), Export("spec", Raw(22))>>],
    [wrappers |-> <<>>,
     exports  |-> <<Export("conflict", Raw(29)), Export("empty", Raw(28)), Export("value", Raw(47))>>],
    [wrappers |-> <<>>, exports |-> <<Export("fails", Raw(34))>>],
    [wrappers |-> <<>>,
     exports  |-> <<Export("a", Raw(43)), Export("bad", Raw(50)), Export("c", Raw(47))>>],
    [wrappers |-> <<>>,
     exports  |-> <<Export("inv", Raw(45)), Export("nested", Raw(40)), Export("sym", Raw(46)),
                    Export("te", Raw(42)), Export("tv", Raw(39))>>],
    [wrappers |-> <<DependantNodeTree(<<Raw(43)>>, Raw(1))>>,
     exports  |-> <<Export("a", Wrap(1)), Export("b", Raw(43))>>],
    [wrappers |-> <<DependantNodeTree(<<Raw(43)>>, Raw(1))>>,
     exports  |-> <<Export("a", Raw(1)), Export("w", Wrap(1)), Export("y", Raw(43))>>],
    [wrappers |-> <<>>, exports |-> <<Export("mixed", Raw(52))>>]
>>

(***************************************************************************)
(* Leaves                                                                  *)
(***************************************************************************)
NaN == [nan |-> TRUE, n |-> 0]
IsNum(n) == [nan |-> FALSE, n |-> n]

\* Number(s) for the strings that occur as leaves
StringToNumber(s) ==
    CASE s = ""  -> IsNum(0)
      [] s = "1" -> IsNum(1)
      [] s = "2" -> IsNum(2)
      [] s = "5" -> IsNum(5)
      [] OTHER   -> NaN

\* Number(vnode)
Number(v) ==
    CASE v.t = "num"  -> IsNum(v.n)
      [] v.t = "bool" -> IsNum(IF v.b THEN 1 ELSE 0)
      [] v.t = "str"  -> StringToNumber(v.s)

\* vnode.toString()
toString(v) ==
    CASE v.t = "num"  -> ToString(v.n)
      [] v.t = "bool" -> IF v.b THEN "true" ELSE "false"
      [] v.t = "str"  -> v.s

\* what renderToObject returns for a string, number or boolean
renderPrimitive(v) ==
    IF v.t = "str" /\ v.s = "" THEN Str("")
    ELSE IF ~Number(v).nan THEN Num(Number(v).n)
    ELSE IF v = Str("true") \/ v = Str("false") THEN Bool(v = Str("true"))
    ELSE v

(***************************************************************************)
(* renderToObject.  A call is identified by the export key it works for    *)
(* and the node it renders.  Its state: "comp" (awaiting the promise of    *)
(* its function component), "sub" (awaiting one nested renderToObject),    *)
(* "all" (awaiting Promise.all of its children), "ok" (fulfilled with      *)
(* val), "err" (rejected with err).  stack is its callStack array.         *)
(***************************************************************************)
Thrown(kind, msg, stack) == [kind |-> kind, msg |-> msg, stack |-> stack]
NoErr == Thrown("none", "", <<>>)
\* new OriginError(message, callStack)
OriginError(msg, callStack) == Thrown("origin", msg, callStack)
\* new Error(message)
Error(msg) == Thrown("error", msg, <<>>)
\* a thrown value that is not an Error
NonError == Thrown("value", "", <<>>)

Task(st, val, err, stack, sub) == [st |-> st, val |-> val, err |-> err, stack |-> stack, sub |-> sub]

\* a plausible slip: every caught error is wrapped again with the catching frame's path
catchRewrap(e, callStack) ==
    IF e.kind \in {"origin", "error"} THEN OriginError(e.msg, callStack)
    ELSE Error("Unknown error")

\* the catch block of renderToObject: what it throws for a caught e
catch(e, callStack) ==
    IF e.kind = "origin" THEN e
    ELSE IF e.kind = "error" THEN OriginError(e.msg, callStack)
    ELSE Error("Unknown error")

Fulfil(S, key, val, stack) ==
    [t |-> (key :> Task("ok", val, NoErr, stack, 0)) @@ S.t, s |-> Append(S.s, key)]
Reject(S, key, err, stack) ==
    [t |-> (key :> Task("err", Undef, err, stack, 0)) @@ S.t, s |-> Append(S.s, key)]
Suspend(S, key, st, stack, sub) ==
    [t |-> (key :> Task(st, Undef, NoErr, stack, sub)) @@ S.t, s |-> S.s]

\* the switch on typeof vnode.type that extends the call stack
pushType(n, callStack) ==
    CASE n.ty = "function" -> Append(callStack, n.tag)
      [] n.ty = "string"   -> Append(callStack, n.tag)
      [] n.ty = "symbol"   -> callStack

RECURSIVE renderToObject(_, _, _, _), mapChildren(_, _, _, _, _)

\* vnode.children.map(child => renderToObject(child, [...callStack])), from the i-th child on
mapChildren(S, k, children, i, callStack) ==
    IF i > Len(children) THEN S
    ELSE mapChildren(renderToObject(S, k, children[i], callStack), k, children, i + 1, callStack)

\* the call renderToObject(VN[p], callStack) up to the point where it
\* returns its promise: the synchronous part of the async function,
\* including the calls it makes before its first await
renderToObject(S, k, p, callStack) ==
    LET n   == VN[p]
        key == <<k, p>>
    IN  CASE n.kind = "null"   -> Fulfil(S, key, Null, callStack)
          [] n.kind = "leaf"   ->
                Fulfil(S, key, renderPrimitive(n.val), Append(callStack, toString(n.val)))
          [] n.kind = "object" ->
                Reject(S, key, catch(Error("Object is not a valid VNode"), callStack), callStack)
          [] n.kind = "elem"   ->
                LET cs == pushType(n, callStack)
                IN  IF n.ty = "function"
                    THEN LET c == Comp(n.tag)
                         IN  IF c.async THEN Suspend(S, key, "comp", cs, 0)
                             ELSE IF c.out = "node"
                                  THEN renderToObject(Suspend(S, key, "sub", cs, c.node), k, c.node, cs)
                             ELSE IF c.out = "error"
                                  THEN Reject(S, key, catch(Error(c.msg), cs), cs)
                             ELSE Reject(S, key, catch(NonError, cs), cs)
                    ELSE IF n.ty = "string" /\ Len(n.children) = 1
                    THEN renderToObject(Suspend(S, key, "sub", cs, n.children[1]), k, n.children[1], cs)
                    ELSE IF n.ty = "symbol" /\ n.tag \notin {"Fragment", "List"}
                    THEN Reject(S, key,
                                catch(Error("Tried to render symbol " \o n.tag \o " as a component"), cs), cs)
                    ELSE mapChildren(Suspend(S, key, "all", cs, 0), k, n.children, 1, cs)

Range(f) == {f[i] : i \in DOMAIN f}

\* place of a call in the order of settlement (0: not settled)
SettledAt(s, key) ==
    IF \E i \in 1..Len(s) : s[i] = key THEN CHOOSE i \in 1..Len(s) : s[i] = key ELSE 0

\* a plausible slip: the values are collected in the order the children completed
promiseAllValuesByCompletion(S, k, children) ==
    LET at(c) == SettledAt(S.s, <<k, c>>)
        rank(i) == Cardinality({j \in 1..Len(children) : at(children[j]) <= at(children[i])})
    IN  [r \in 1..Len(children) |->
            S.t[<<k, children[CHOOSE i \in 1..Len(children) : rank(i) = r]>>].val]

\* the array Promise.all fulfils with: the children's values by index
promiseAllValues(S, k, children) ==
    [i \in 1..Len(children) |-> S.t[<<k, children[i]>>].val]

\* a plausible slip: Promise.allSettled, which waits for every child and never rejects
PromiseAllSettled(S, k, children) ==
    IF \A i \in 1..Len(children) : S.t[<<k, children[i]>>].st \in {"ok", "err"}
    THEN [st |-> "fulfilled", err |-> NoErr, values |-> promiseAllValues(S, k, children)]
    ELSE [st |-> "pending", err |-> NoErr, values |-> <<>>]

\* Promise.all over the children's promises: rejected with the reason of the
\* first child to reject, fulfilled once all are fulfilled, else pending
PromiseAll(S, k, children) ==
    LET rejected == {i \in 1..Len(S.s) :
                        /\ S.s[i][1] = k
                        /\ S.s[i][2] \in Range(children)
                        /\ S.t[S.s[i]].st = "err"}
    IN  IF rejected # {}
        THEN [st |-> "rejected",
              err |-> S.t[S.s[CHOOSE i \in rejected : \A j \in rejected : i <= j]].err,
              values |-> <<>>]
        ELSE IF \A i \in 1..Len(children) : S.t[<<k, children[i]>>].st = "ok"
        THEN [st |-> "fulfilled", err |-> NoErr, values |-> promiseAllValues(S, k, children)]
        ELSE [st |-> "pending", err |-> NoErr, values |-> <<>>]

\* results.reduce((acc, result) => deepMerge(acc, result), {}), from the i-th result on
RECURSIVE reduceMerge(_, _, _)

\* a plausible slip: the accumulator is merged into the result (arguments swapped)
reduceMergeSwapped(results, i, acc) ==
    IF i > Len(results) THEN Ok(acc)
    ELSE LET r == deepMerge(results[i], acc)
         IN  IF r.ok THEN reduceMerge(results, i + 1, r.val) ELSE r

reduceMerge(results, i, acc) ==
    IF i > Len(results) THEN Ok(acc)
    ELSE LET r == deepMerge(acc, results[i])
         IN  IF r.ok THEN reduceMerge(results, i + 1, r.val) ELSE r

\* results.reduce((acc, result) => [...acc, result], [])
reduceList(results) == Arr(results)

Cur == [t |-> tasks, s |-> settled]

TaskKeys == DOMAIN tasks

\* the promise returned by an async function component settles
ComponentSettles(key) ==
    /\ pc \in {"awaiting", "returned"}
    /\ key \in TaskKeys
    /\ tasks[key].st = "comp"
    /\ LET c  == Comp(VN[key[2]].tag)
           cs == tasks[key].stack
           S  == IF c.out = "node"
                 THEN renderToObject(Suspend(Cur, key, "sub", cs, c.node), key[1], c.node, cs)
                 ELSE IF c.out = "error"
                 THEN Reject(Cur, key, catch(Error(c.msg), cs), cs)
                 ELSE Reject(Cur, key, catch(NonError, cs), cs)
       IN  /\ tasks' = S.t
           /\ settled' = S.s
    /\ UNCHANGED <<pc, modIdx, entries, ret>>
    /\ UNCHANGED <<wrappers, lastCall, trees, order, resolved>>
    /\ UNCHANGED mergeVars
    /\ UNCHANGED heapVars

\* a call awaiting one nested renderToObject resumes
ResumeSub(key) ==
    /\ pc \in {"awaiting", "returned"}
    /\ key \in TaskKeys
    /\ tasks[key].st = "sub"
    /\ LET n     == VN[key[2]]
           cs    == tasks[key].stack
           child == tasks[<<key[1], tasks[key].sub>>]
           S     == IF child.st = "ok"
                    THEN Fulfil(Cur, key,
                                IF n.ty = "function" THEN child.val
                                ELSE Obj(<<Entry(n.tag, child.val)>>), cs)
                    ELSE Reject(Cur, key, catch(child.err, cs), cs)
       IN  /\ child.st \in {"ok", "err"}
           /\ tasks' = S.t
           /\ settled' = S.s
    /\ UNCHANGED <<pc, modIdx, entries, ret>>
    /\ UNCHANGED <<wrappers, lastCall, trees, order, resolved>>
    /\ UNCHANGED mergeVars
    /\ UNCHANGED heapVars

\* a call awaiting Promise.all of its children resumes
ResumeAll(key) ==
    /\ pc \in {"awaiting", "returned"}
    /\ key \in TaskKeys
    /\ tasks[key].st = "all"
    /\ LET n   == VN[key[2]]
           cs  == tasks[key].stack
           all == PromiseAll(Cur, key[1], n.children)
           m   == reduceMerge(all.values, 1, Obj(<<>>))
           S   == IF all.st = "rejected" THEN Reject(Cur, key, catch(all.err, cs), cs)
                  ELSE IF n.tag = "List" /\ n.ty = "symbol"
                  THEN Fulfil(Cur, key, reduceList(all.values), cs)
                  ELSE IF ~m.ok THEN Reject(Cur, key, catch(Error(m.err), cs), cs)
                  ELSE IF n.ty = "symbol" THEN Fulfil(Cur, key, m.val, cs)
                  ELSE Fulfil(Cur, key, Obj(<<Entry(n.tag, m.val)>>), cs)
       IN  /\ all.st # "pending"
           /\ tasks' = S.t
           /\ settled' = S.s
    /\ UNCHANGED <<pc, modIdx, entries, ret>>
    /\ UNCHANGED <<wrappers, lastCall, trees, order, resolved>>
    /\ UNCHANGED mergeVars
    /\ UNCHANGED heapVars

(***************************************************************************)
(* renderFile                                                              *)
(***************************************************************************)
\* const mod = await import(filePath)
Import(m) ==
    /\ pc = "init"
    /\ pc' = "imported"
    /\ modIdx' = m
    /\ wrappers' = Modules[m].wrappers
    /\ UNCHANGED <<entries, tasks, settled, ret>>
    /\ UNCHANGED <<lastCall, trees, order, resolved>>
    /\ UNCHANGED mergeVars
    /\ UNCHANGED heapVars

\* Array.prototype.indexOf, 0-based, -1 when absent
indexOf(seq, x) ==
    IF \E i \in 1..Len(seq) : seq[i] = x
    THEN (CHOOSE i \in 1..Len(seq) : seq[i] = x /\ \A j \in 1..(i - 1) : seq[j] # x) - 1
    ELSE -1

\* unravelOrderOfDependencies(Object.values(mod)).map(...)
orderOfExecution ==
    LET exports == Modules[modIdx].exports
        out     == unravelOrderOfDependencies([i \in 1..Len(exports) |-> exports[i].value])
    IN  [i \in 1..Len(out) |-> Underlying(out[i])]

\* Object.entries(mod).map(...).sort(...): a stable sort by position in orderOfExecution
sortedEntries ==
    LET exports == Modules[modIdx].exports
        ents    == [i \in 1..Len(exports) |->
                       [key |-> exports[i].key, node |-> Underlying(exports[i].value)]]
        ord     == orderOfExecution
        idx     == [i \in 1..Len(ents) |-> indexOf(ord, ents[i].node)]
        rank(i) == Cardinality({j \in 1..Len(ents) :
                                   idx[j] < idx[i] \/ (idx[j] = idx[i] /\ j <= i)})
    IN  [r \in 1..Len(ents) |-> ents[CHOOSE i \in 1..Len(ents) : rank(i) = r]]

\* .reduce((acc, { key, node }) => { acc[key] = renderToObject(node); ... }), from the i-th entry on
RECURSIVE startRenders(_, _, _)
startRenders(S, ents, i) ==
    IF i > Len(ents) THEN S
    ELSE startRenders(renderToObject(S, ents[i].key, ents[i].node.id, <<>>), ents, i + 1)

\* from the import to the await of Promise.allSettled
StartRenders ==
    /\ pc = "imported"
    /\ pc' = "awaiting"
    /\ entries' = sortedEntries
    /\ LET S == startRenders(Cur, sortedEntries, 1)
       IN  /\ tasks' = S.t
           /\ settled' = S.s
    /\ UNCHANGED <<modIdx, ret>>
    /\ UNCHANGED <<wrappers, lastCall, trees, order, resolved>>
    /\ UNCHANGED mergeVars
    /\ UNCHANGED heapVars

SettledResult(t) ==
    IF t.st = "ok" THEN [status |-> "fulfilled", value |-> t.val, reason |-> NoErr]
    ELSE [status |-> "rejected", value |-> Undef, reason |-> t.err]

\* a plausible slip: Promise.all semantics, one rejection is reported for every entry
allSettledFirstRejection(T, ents) ==
    LET bad == {i \in 1..Len(ents) : T[<<ents[i].key, ents[i].node.id>>].st = "err"}
    IN  [i \in 1..Len(ents) |->
            [key |-> ents[i].key,
             result |-> IF bad = {} THEN SettledResult(T[<<ents[i].key, ents[i].node.id>>])
                        ELSE SettledResult(T[<<ents[CHOOSE b \in bad : TRUE].key,
                                               ents[CHOOSE b \in bad : TRUE].node.id>>])]]

\* (await Promise.allSettled(promises)).map((result, index) => ({ key: keys[index], result }))
allSettled(T, ents) ==
    [i \in 1..Len(ents) |->
        [key |-> ents[i].key, result |-> SettledResult(T[<<ents[i].key, ents[i].node.id>>])]]

RECURSIVE filter(_, _, _)
filter(results, i, status) ==
    IF i > Len(results) THEN <<>>
    ELSE (IF results[i].result.status = status THEN <<results[i]>> ELSE <<>>)
         \o filter(results, i + 1, status)

\* a plausible slip: the results are reported as soon as one render has settled
ReturnOnFirstSettled ==
    /\ pc = "awaiting"
    /\ \E i \in 1..Len(entries) : tasks[<<entries[i].key, entries[i].node.id>>].st \in {"ok", "err"}
    /\ pc' = "returned"
    /\ LET results == allSettled(tasks, entries)
       IN  ret' = [fulfilled |-> filter(results, 1, "fulfilled"),
                   failures  |-> filter(results, 1, "rejected")]
    /\ UNCHANGED <<modIdx, entries, tasks, settled>>
    /\ UNCHANGED <<wrappers, lastCall, trees, order, resolved>>
    /\ UNCHANGED mergeVars
    /\ UNCHANGED heapVars

\* Promise.allSettled has settled: renderFile returns { fulfilled, failures }
Return ==
    /\ pc = "awaiting"
    /\ \A i \in 1..Len(entries) : tasks[<<entries[i].key, entries[i].node.id>>].st \in {"ok", "err"}
    /\ pc' = "returned"
    /\ LET results == allSettled(tasks, entries)
       IN  ret' = [fulfilled |-> filter(results, 1, "fulfilled"),
                   failures  |-> filter(results, 1, "rejected")]
    /\ UNCHANGED <<modIdx, entries, tasks, settled>>
    /\ UNCHANGED <<wrappers, lastCall, trees, order, resolved>>
    /\ UNCHANGED mergeVars
    /\ UNCHANGED heapVars

InitFile ==
    /\ wrappers = <<>>
    /\ lastCall = NoCall
    /\ trees = <<>>
    /\ order = <<>>
    /\ resolved = FALSE
    /\ mTarget = Undef
    /\ mSource = Undef
    /\ mOut = Ok(Undef)
    /\ mDone = FALSE
    /\ pc = "init"
    /\ modIdx = 0
    /\ entries = <<>>
    /\ tasks = <<>>
    /\ settled = <<>>
    /\ ret = NoReturn
    /\ heap = <<>>
    /\ hArgs = <<>>
    /\ hAccs = <<>>
    /\ hErr = ""

NextFile ==
    \/ \E m \in 1..Len(Modules) : Import(m)
    \/ StartRenders
    \/ \E key \in TaskKeys : ComponentSettles(key)
    \/ \E key \in TaskKeys : ResumeSub(key)
    \/ \E key \in TaskKeys : ResumeAll(key)
    \/ Return

SpecFile == InitFile /\ [][NextFile]_vars

(***************************************************************************)
(* Properties of deepMerge                                                 *)
(***************************************************************************)
isScalar(v) == v.t \in {"null", "bool", "num", "str"}
KeysOf(v)   == {v.kv[i].k : i \in 1..Len(v.kv)}
MergeMsgs   == {MergeMsg(k) : k \in Keys}

\* C7: on two object-shaped values, deepMerge throws the merge-conflict
\* error whenever some key of source holds a scalar and target already has
\* that key (whatever target holds there); when target lacks the key, the
\* result holds source's value under it.
C7_ScalarConflict ==
    (mDone /\ isObject(mTarget) /\ isObject(mSource)) =>
        \A k \in KeysOf(mSource) :
            isScalar(Get(mSource, k)) =>
                /\ k \in KeysOf(mTarget) => (~mOut.ok /\ mOut.err \in MergeMsgs)
                /\ (k \notin KeysOf(mTarget) /\ mOut.ok) =>
                       (k \in KeysOf(mOut.val) /\ Get(mOut.val, k) = Get(mSource, k))

\* a scalar of source collides with an array of target, and the merge has thrown
C7_Witness ==
    /\ mDone /\ isObject(mTarget) /\ isObject(mSource)
    /\ \E k \in KeysOf(mSource) :
          /\ isScalar(Get(mSource, k))
          /\ k \in KeysOf(mTarget)
          /\ isArray(Get(mTarget, k))
    /\ ~mOut.ok

\* what C8 says of one merge of the objects t and s with result out
UnionOnDisjoint(t, s, out) ==
    KeysOf(t) \cap KeysOf(s) = {} =>
        /\ out.ok
        /\ isObject(out.val)
        /\ KeysOf(out.val) = KeysOf(t) \cup KeysOf(s)
        /\ Len(out.val.kv) = Len(t.kv) + Len(s.kv)
        /\ \A k \in KeysOf(t) : Get(out.val, k) = Get(t, k)
        /\ \A k \in KeysOf(s) : Get(out.val, k) = Get(s, k)

ConcatOnArrays(t, s, out) ==
    \A k \in KeysOf(t) \cap KeysOf(s) :
        (isArray(Get(t, k)) /\ isArray(Get(s, k)) /\ out.ok) =>
            Get(out.val, k) = Arr(Get(t, k).arr \o Get(s, k).arr)

IsSettled(key) == key \in TaskKeys /\ tasks[key].st \in {"ok", "err"}
ChildKeys(key) == [i \in 1..Len(VN[key[2]].children) |-> <<key[1], VN[key[2]].children[i]>>]
ChildVals(key) == [i \in 1..Len(VN[key[2]].children) |-> tasks[ChildKeys(key)[i]].val]
AllChildrenOk(key) ==
    \A i \in 1..Len(VN[key[2]].children) :
        ChildKeys(key)[i] \in TaskKeys /\ tasks[ChildKeys(key)[i]].st = "ok"
\* two children settled in the opposite of their declaration order
SettledOutOfOrder(key) ==
    \E i, j \in 1..Len(VN[key[2]].children) :
        /\ i < j
        /\ SettledAt(settled, ChildKeys(key)[j]) > 0
        /\ SettledAt(settled, ChildKeys(key)[j]) < SettledAt(settled, ChildKeys(key)[i])

IsList(key)  == VN[key[2]].kind = "elem" /\ VN[key[2]].ty = "symbol" /\ VN[key[2]].tag = "List"
IsMerge(key) ==
    /\ VN[key[2]].kind = "elem"
    /\ \/ VN[key[2]].ty = "symbol" /\ VN[key[2]].tag = "Fragment"
       \/ VN[key[2]].ty = "string" /\ Len(VN[key[2]].children) # 1

\* the declaration exported under a name, and the outcome of its render
ExportKeys == {Modules[modIdx].exports[i].key : i \in 1..Len(Modules[modIdx].exports)}
RootOf(name) ==
    LET exports == Modules[modIdx].exports
    IN  Underlying(exports[CHOOSE i \in 1..Len(exports) : exports[i].key = name].value).id
Reported(list, name) == {i \in 1..Len(list) : list[i].key = name}

\* C4: renderFile settles all: every exported name is reported exactly once,
\* in fulfilled or in failures, the two lists together have one entry per
\* export, each entry carries the outcome of its own declaration's render,
\* and exactly one failing declaration gives N-1 fulfilled entries and one
\* failure.
C4_SettleAll ==
    pc = "returned" =>
        LET N      == Len(Modules[modIdx].exports)
            failed == {name \in ExportKeys : tasks[<<name, RootOf(name)>>].st = "err"}
        IN  /\ Len(ret.fulfilled) + Len(ret.failures) = N
            /\ \A name \in ExportKeys :
                  Cardinality(Reported(ret.fulfilled, name))
                      + Cardinality(Reported(ret.failures, name)) = 1
            /\ \A i \in 1..Len(ret.fulfilled) :
                  LET t == tasks[<<ret.fulfilled[i].key, RootOf(ret.fulfilled[i].key)>>]
                  IN  /\ t.st = "ok"
                      /\ ret.fulfilled[i].result.status = "fulfilled"
                      /\ ret.fulfilled[i].result.value = t.val
            /\ \A i \in 1..Len(ret.failures) :
                  LET t == tasks[<<ret.failures[i].key, RootOf(ret.failures[i].key)>>]
                  IN  /\ t.st = "err"
                      /\ ret.failures[i].result.status = "rejected"
                      /\ ret.failures[i].result.reason = t.err
            /\ Cardinality(failed) = 1 =>
                  (Len(ret.failures) = 1 /\ Len(ret.fulfilled) = N - 1)

\* three declarations of which exactly one failed: two fulfilled entries, one failure
C4_Witness ==
    /\ pc = "returned"
    /\ Len(Modules[modIdx].exports) = 3
    /\ Len(ret.failures) = 1
    /\ Len(ret.fulfilled) = 2

\* C5: a List-container that rendered holds the values of its children in
\* declaration order, whatever the order in which the children completed.
C5_ListOrder ==
    \A key \in TaskKeys :
        (IsList(key) /\ tasks[key].st = "ok") =>
            /\ AllChildrenOk(key)
            /\ tasks[key].val = Arr(ChildVals(key))

\* a List-container has rendered although a later child completed before an earlier one
C5_Witness ==
    \E key \in TaskKeys :
        /\ IsList(key) /\ tasks[key].st = "ok"
        /\ Len(VN[key[2]].children) >= 3
        /\ SettledOutOfOrder(key)

\* the left fold of deepMerge over vals, from the i-th value on
RECURSIVE LeftFold(_, _, _)
LeftFold(vals, i, acc) ==
    IF i > Len(vals) THEN Ok(acc)
    ELSE IF deepMerge(acc, vals[i]).ok
         THEN LeftFold(vals, i + 1, deepMerge(acc, vals[i]).val)
         ELSE deepMerge(acc, vals[i])

\* C6: a Merge-container, or a string-tagged node with zero or several
\* children, whose children all rendered, yields the left fold of deepMerge
\* over the children's values in declaration order starting from {} (under
\* its tag for a string tag), and fails when that fold fails, whatever the
\* order in which the children completed.
C6_MergeFold ==
    \A key \in TaskKeys :
        (IsMerge(key) /\ IsSettled(key) /\ AllChildrenOk(key)) =>
            LET f == LeftFold(ChildVals(key), 1, Obj(<<>>))
            IN  IF f.ok
                THEN /\ tasks[key].st = "ok"
                     /\ tasks[key].val = IF VN[key[2]].ty = "string"
                                         THEN Obj(<<Entry(VN[key[2]].tag, f.val)>>)
                                         ELSE f.val
                ELSE tasks[key].st = "err"

\* a merge of two or more children has rendered although a later child
\* completed before an earlier one
C6_Witness ==
    \E key \in TaskKeys :
        /\ IsMerge(key) /\ tasks[key].st = "ok"
        /\ Len(VN[key[2]].children) >= 2
        /\ SettledOutOfOrder(key)

\* C9: a leaf that is already a number or a boolean renders to that same value.
C9_NumBoolUnchanged ==
    \A key \in TaskKeys :
        (/\ VN[key[2]].kind = "leaf"
         /\ VN[key[2]].val.t \in {"num", "bool"}
         /\ tasks[key].st = "ok") => tasks[key].val = VN[key[2]].val

\* C10: every failure of a renderToObject call, at any depth, is an
\* OriginError (it carries a call stack).
C10_EveryFailureIsOriginError ==
    \A key \in TaskKeys :
        tasks[key].st = "err" => tasks[key].err.kind = "origin"

(***************************************************************************)
(* Helpers for the resolver's properties                                   *)
(***************************************************************************)
\* position of a raw node in the output (0 when absent)
Pos(n) == IF \E i \in 1..Len(order) : order[i] = n
          THEN CHOOSE i \in 1..Len(order) : order[i] = n
          ELSE 0

\* references reachable from a set of references through node and deps links
RECURSIVE ReachFrom(_)
ReachFrom(S) ==
    LET next == S \cup UNION { {wrappers[r.id].node} \cup
                               {wrappers[r.id].deps[i] : i \in 1..Len(wrappers[r.id].deps)}
                               : r \in {q \in S : q.w} }
    IN  IF next = S THEN S ELSE ReachFrom(next)

TreeSet == {trees[i] : i \in 1..Len(trees)}
Reached == ReachFrom(TreeSet)

\* C1: for every wrapped declaration W reachable from the input of resolve,
\* the underlying node of each entry of W.deps (other than W's own
\* underlying node) appears in the output strictly before W's underlying node.
C1_DepsBeforeDependent ==
    resolved =>
        \A r \in {q \in Reached : q.w} :
            \A i \in 1..Len(wrappers[r.id].deps) :
                LET d == Underlying(wrappers[r.id].deps[i])
                    n == Underlying(r)
                IN  d # n => (Pos(d) > 0 /\ Pos(n) > 0 /\ Pos(d) < Pos(n))

C2_WitnessRawSelf ==
    /\ lastCall.called /\ ~lastCall.threw
    /\ \E i \in 1..Len(lastCall.deps) : lastCall.deps[i] = lastCall.node

\* b is named (directly) as a dependency of a by some reachable wrapper
DepEdge(a, b) ==
    \E r \in {q \in Reached : q.w} :
        /\ Underlying(r) = a
        /\ \E i \in 1..Len(wrappers[r.id].deps) : Underlying(wrappers[r.id].deps[i]) = b

RECURSIVE DepClosure(_)
DepClosure(S) ==
    LET next == S \cup {b \in RawNodes : \E a \in S : DepEdge(a, b)}
    IN  IF next = S THEN S ELSE DepClosure(next)

\* b is reachable from a through dependency lists
DependsOn(a, b) == b \in DepClosure({c \in RawNodes : DepEdge(a, c)})

Unrelated(a, b) == a # b /\ ~DependsOn(a, b) /\ ~DependsOn(b, a)

\* index of the first supplied declaration whose underlying node is n (0: none)
FirstSupplied(n) ==
    IF \E i \in 1..Len(trees) : Underlying(trees[i]) = n
    THEN CHOOSE i \in 1..Len(trees) :
            /\ Underlying(trees[i]) = n
            /\ \A j \in 1..(i - 1) : Underlying(trees[j]) # n
    ELSE 0

\* index of the first supplied declaration from which n is reachable (0: none)
FirstSeen(n) ==
    LET reach == [i \in 1..Len(trees) |-> ReachFrom({trees[i]})]
        hits  == {i \in 1..Len(trees) : n \in reach[i]}
    IN  IF hits = {} THEN 0 ELSE CHOOSE i \in hits : \A j \in hits : i <= j

\* C3 (as stated): two nodes with no relative ordering constraint appear in
\* the output in the order in which their declarations were supplied to
\* resolve.
C3_SupplyOrder ==
    resolved =>
        \A a, b \in RawNodes :
            (/\ Unrelated(a, b)
             /\ FirstSupplied(a) > 0
             /\ FirstSupplied(a) < FirstSupplied(b)) => Pos(a) < Pos(b)

\* C3 (amended): two nodes with no relative ordering constraint appear in
\* the output in the order of the first supplied declarations from which
\* each of them is reachable (first-seen order of the traversal).
C3_FirstSeenOrder ==
    resolved =>
        LET seen == [n \in RawNodes |-> FirstSeen(n)]
            pos  == [n \in RawNodes |-> Pos(n)]
        IN  \A a, b \in RawNodes :
                (/\ seen[a] > 0
                 /\ seen[a] < seen[b]
                 /\ ~(pos[a] > 0 /\ pos[a] < pos[b])) => ~Unrelated(a, b)

\* two unrelated nodes, the later-supplied one first reached as a dependency
\* of an earlier declaration
C3_Witness ==
    /\ resolved
    /\ \E a, b \in RawNodes :
          /\ Unrelated(a, b)
          /\ FirstSupplied(b) > 0 /\ FirstSupplied(b) < FirstSupplied(a)
          /\ FirstSeen(a) > 0 /\ FirstSeen(a) < FirstSeen(b)
          /\ Pos(a) < Pos(b)

(***************************************************************************)
(* What is still running when renderFile returns                           *)
(***************************************************************************)
RootsSettled ==
    \A i \in 1..Len(entries) : IsSettled(<<entries[i].key, entries[i].node.id>>)
\* the calls whose function component has been invoked and has not settled yet
InFlight == {key \in TaskKeys : tasks[key].st = "comp"}

\* C11 (as stated): when renderFile has returned, every declaration's render
\* has settled and no component invocation is still in flight.
C11_NothingInFlight ==
    pc = "returned" => (RootsSettled /\ InFlight = {})

\* C11 (amended): when renderFile has returned, every declaration's render
\* has settled, and a component invocation still in flight belongs to a
\* declaration whose render was rejected.
C11_DeclarationsSettled ==
    pc = "returned" =>
        /\ RootsSettled
        /\ \A key \in InFlight : tasks[<<key[1], RootOf(key[1])>>].st = "err"

\* renderFile has returned while a sibling of a failed child is still in flight
C11_Witness ==
    /\ pc = "returned"
    /\ \E key \in InFlight :
          /\ VN[key[2]].par # 0
          /\ tasks[<<key[1], VN[key[2]].par>>].st = "err"

(***************************************************************************)
(* The outcome of a render as a function of the node alone                 *)
(***************************************************************************)
\* the callStack of the call that renders node p, after its own push
RECURSIVE PathTo(_)
PathTo(p) ==
    IF p = 0 THEN <<>>
    ELSE LET n  == VN[p]
             up == PathTo(n.par)
         IN  CASE n.kind = "leaf" -> Append(up, toString(n.val))
               [] n.kind = "elem" -> pushType(n, up)
               [] OTHER           -> up

Outcome(ok, val, errs, first) == [ok |-> ok, val |-> val, errs |-> errs, first |-> first]
Succeeds(v) == Outcome(TRUE, v, {}, NoErr)
Fails(e)    == Outcome(FALSE, Undef, {e}, e)

\* what the render of node p yields when every child renders to completion:
\* its value, or the failures it can report (errs) and, among them, the one
\* of the first failing child in declaration order (first)
RECURSIVE Expected(_)
Expected(p) ==
    LET n    == VN[p]
        cs   == PathTo(p)
        kids == [i \in 1..Len(n.children) |-> Expected(n.children[i])]
        bad  == {i \in 1..Len(n.children) : ~kids[i].ok}
        one(r, wrap) ==
            IF r.ok THEN Succeeds(IF wrap THEN Obj(<<Entry(n.tag, r.val)>>) ELSE r.val)
            ELSE Outcome(FALSE, Undef, {catch(e, cs) : e \in r.errs}, catch(r.first, cs))
        m    == LeftFold([i \in 1..Len(n.children) |-> kids[i].val], 1, Obj(<<>>))
    IN  CASE n.kind = "null"   -> Succeeds(Null)
          [] n.kind = "leaf"   -> Succeeds(renderPrimitive(n.val))
          [] n.kind = "object" -> Fails(catch(Error("Object is not a valid VNode"), cs))
          [] n.kind = "elem"   ->
                IF n.ty = "function"
                THEN IF Comp(n.tag).out = "node" THEN one(Expected(Comp(n.tag).node), FALSE)
                     ELSE IF Comp(n.tag).out = "error"
                          THEN Fails(catch(Error(Comp(n.tag).msg), cs))
                     ELSE Fails(catch(NonError, cs))
                ELSE IF n.ty = "string" /\ Len(n.children) = 1
                THEN one(kids[1], TRUE)
                ELSE IF n.ty = "symbol" /\ n.tag \notin {"Fragment", "List"}
                THEN Fails(catch(Error("Tried to render symbol " \o n.tag \o " as a component"), cs))
                ELSE IF bad # {}
                THEN Outcome(FALSE, Undef,
                             {catch(e, cs) : e \in UNION {kids[i].errs : i \in bad}},
                             catch(kids[CHOOSE i \in bad : \A j \in bad : i <= j].first, cs))
                ELSE IF n.tag = "List" /\ n.ty = "symbol"
                THEN Succeeds(Arr([i \in 1..Len(n.children) |-> kids[i].val]))
                ELSE IF ~m.ok THEN Fails(catch(Error(m.err), cs))
                ELSE Succeeds(IF n.ty = "string" THEN Obj(<<Entry(n.tag, m.val)>>) ELSE m.val)

SettledKeys == {key \in TaskKeys : tasks[key].st \in {"ok", "err"}}

\* C12 (as stated): the outcome of a render is the same under every
\* interleaving: the same value on success and the same failure on failure
\* (that of the first failing child in declaration order).
C12_SameOutcome ==
    \A key \in SettledKeys :
        LET e == Expected(key[2])
        IN  /\ (tasks[key].st = "ok") <=> e.ok
            /\ tasks[key].st = "ok"  => tasks[key].val = e.val
            /\ tasks[key].st = "err" => tasks[key].err = e.first

\* C12 (amended): under every interleaving a render succeeds or fails alike,
\* yields the same value on success, and on failure reports one of the
\* failures of its failing parts: the same one when a single part fails or
\* a merge conflicts, the one that rejected first when several children fail.
C12_SameValueAndFailing ==
    \A key \in SettledKeys :
        LET e == Expected(key[2])
        IN  /\ (tasks[key].st = "ok") <=> e.ok
            /\ tasks[key].st = "ok"  => tasks[key].val = e.val
            /\ tasks[key].st = "err" => tasks[key].err \in e.errs

\* a node with two failing children has reported the failure of the later one
C12_Witness ==
    \E key \in SettledKeys :
        /\ tasks[key].st = "err"
        /\ Cardinality(Expected(key[2]).errs) >= 2
        /\ tasks[key].err # Expected(key[2]).first

\* the child of a multi-child node that rejected first
IsMulti(key) == IsList(key) \/ IsMerge(key)
FailedChildren(key) ==
    {i \in 1..Len(VN[key[2]].children) :
        ChildKeys(key)[i] \in TaskKeys /\ tasks[ChildKeys(key)[i]].st = "err"}
FirstFailedChild(key) ==
    CHOOSE i \in FailedChildren(key) :
        \A j \in FailedChildren(key) :
            SettledAt(settled, ChildKeys(key)[i]) <= SettledAt(settled, ChildKeys(key)[j])

\* C13: a multi-child node one of whose children has failed fails with that
\* child's failure (the first to fail), without any merge or array assembly.
C13_FailsWithChildFailure ==
    \A key \in SettledKeys :
        (IsMulti(key) /\ FailedChildren(key) # {}
            /\ SettledAt(settled, ChildKeys(key)[FirstFailedChild(key)]) < SettledAt(settled, key)) =>
            /\ tasks[key].st = "err"
            /\ tasks[key].err = tasks[ChildKeys(key)[FirstFailedChild(key)]].err

\* C14: deepMerge is pure: a merge modifies no object or array that existed
\* before it (its arguments, everything nested in them, earlier results and
\* accumulators); it only creates new ones.
C14_InputsUnmodified ==
    [][\A a \in 1..Len(heap) : Len(heap') >= a /\ heap'[a] = heap[a]]_vars

\* an object of the first result was adopted into the accumulator and the
\* second merge then merged another object with it
C14_Witness ==
    /\ Len(hAccs) = 3
    /\ hIsObject(heap, hArgs[1])
    /\ hIsObject(heap, hArgs[2])
    /\ \E k \in Keys :
          LET adopted == Get(heap[hAccs[2].n], k)
              merged  == Get(heap[hAccs[3].n], k)
          IN  /\ hIsObject(heap, adopted)
              /\ adopted = Get(heap[hArgs[1].n], k)
              /\ hIsObject(heap, Get(heap[hArgs[2].n], k))
              /\ Load(heap, merged) # Load(heap, adopted)

\* the position in promisesMap (the order the renders are started in) of an exported name
StartPos(name) == CHOOSE i \in 1..Len(entries) : entries[i].key = name

\* C15: for every exported wrapped declaration, the render of each of its
\* dependencies' underlying nodes is started before the render of its own
\* underlying node.
C15_DependenciesStartedFirst ==
    pc \in {"awaiting", "returned"} =>
        \A j \in 1..Len(Modules[modIdx].exports) :
            LET e == Modules[modIdx].exports[j]
            IN  e.value.w =>
                    \A d \in 1..Len(wrappers[e.value.id].deps) :
                        \E i \in 1..(StartPos(e.key) - 1) :
                            entries[i].node = Underlying(wrappers[e.value.id].deps[d])

\* the dfs calls made on the dependencies and the node of the wrappers in S
RECURSIVE CallsFrom(_)
CallsFrom(S) ==
    IF S = {} THEN 0
    ELSE LET r == CHOOSE q \in S : TRUE
         IN  Len(wrappers[r.id].deps) + 1 + CallsFrom(S \ {r})

\* a dependency of wrapper r leads back to r's own underlying node
Cyclic(r) ==
    \E i \in 1..Len(wrappers[r.id].deps) :
        Underlying(r) \in {Underlying(q) : q \in ReachFrom({wrappers[r.id].deps[i]})}

NotBothObjects == ~isObject(mTarget) \/ ~isObject(mSource)

\* C17 (as stated): when target or source is not object-shaped, deepMerge
\* returns a shallow copy of target with source's own keys layered over it.
C17_SourceLayered ==
    (mDone /\ NotBothObjects) =>
        /\ mOut.ok
        /\ mOut.val = Obj(Layer(Spread(mTarget), Spread(mSource), 1))

\* C17 (amended): when target or source is not object-shaped, deepMerge
\* returns a shallow copy of target's own properties and ignores source.
C17_TargetCopyOnly ==
    (mDone /\ NotBothObjects) =>
        /\ mOut.ok
        /\ mOut.val = Obj(Spread(mTarget))

\* an object was merged with an array or a string, which has own keys
C17_Witness ==
    /\ mDone
    /\ isObject(mTarget)
    /\ mTarget.kv # <<>>
    /\ ~isObject(mSource)
    /\ Spread(mSource) # <<>>

\* the scalar leaves of a value: the key path of each, and whether it is an
\* element of an array at that path
RECURSIVE Leaves(_, _)
Leaves(v, path) ==
    IF isObject(v)
    THEN UNION {Leaves(v.kv[i].v, Append(path, v.kv[i].k)) : i \in 1..Len(v.kv)}
    ELSE IF isArray(v)
    THEN {[path |-> path, elem |-> TRUE, v |-> v.arr[i]] : i \in 1..Len(v.arr)}
    ELSE {[path |-> path, elem |-> FALSE, v |-> v]}

\* C20: whenever deepMerge of two objects returns without error, every
\* scalar leaf of target and of source is present at the same key path in
\* the result.
C20_NoLeafLost ==
    (mDone /\ isObject(mTarget) /\ isObject(mSource) /\ mOut.ok) =>
        (Leaves(mTarget, <<>>) \cup Leaves(mSource, <<>>)) \subseteq Leaves(mOut.val, <<>>)

\* the renders a render awaits: the node a component returned, or the children
Awaited(key) ==
    LET n == VN[key[2]]
    IN  IF n.kind = "elem" /\ n.ty = "function"
        THEN IF Comp(n.tag).out = "node" THEN {<<key[1], Comp(n.tag).node>>} ELSE {}
        ELSE {<<key[1], n.children[i]>> : i \in 1..Len(n.children)}

\* the render in which the failure of a rejected render was raised: the
\* render itself, or where the failure of the awaited render that rejected
\* first was raised
RECURSIVE RaisedAt(_)
RaisedAt(key) ==
    LET failed == {c \in Awaited(key) \cap TaskKeys :
                      /\ tasks[c].st = "err"
                      /\ SettledAt(settled, c) < SettledAt(settled, key)}
    IN  IF failed = {} THEN key
        ELSE RaisedAt(CHOOSE c \in failed :
                          \A d \in failed : SettledAt(settled, c) <= SettledAt(settled, d))

\* C18: the context path of a failure that surfaces from a render is the
\* sequence of identifiers on the chain from the root to the node where the
\* failure was raised.
C18_PathIsChainToRaiser ==
    \A key \in SettledKeys :
        (tasks[key].st = "err" /\ tasks[key].err.kind = "origin") =>
            tasks[key].err.stack = PathTo(RaisedAt(key)[2])
====
